---- MODULE Spec2Model ----
(***************************************************************************)
(* Model of the envgod SDK loader (src/src/index.ts): the process-wide     *)
(* cache of tokens and bundles keyed by configuration fingerprint, the     *)
(* single-flight handle pendingLoadPromise, and loadEnvInternal as a state *)
(* machine whose steps run from one suspension point (await) to the next.  *)
(*                                                                         *)
(* JavaScript strings that the code slices or joins (credentials, URLs,    *)
(* scope fields, fingerprints) are tuples of one-character strings.        *)
(* undefined/null have one sentinel per type, since TLC compares only      *)
(* values of one type: UNDEF (strings), NoNumber (numbers), NoToken,       *)
(* NoBundle, NoError.                                                      *)
(***************************************************************************)
EXTENDS Integers, Sequences, FiniteSets, TLC

\* ------------------------------------------------------------------ bounds

\* loadEnv calls made by the host over one behaviour.
MaxCalls == 3
\* Last instant the clock (Date.now()) reaches.
MaxClock == 1
\* loadEnv calls made when _resetState may come in between.
MaxResetCalls == 2

\* --------------------------------------------------------------- constants

\* const TOKEN_SKEW_MS = 30 * 1000;
TOKEN_SKEW_MS == 30 * 1000
\* options?.timeout ?? 5000
DEFAULT_TIMEOUT == 5000
\* runtimeKey.substring(0, 12)
KEY_PREFIX_LEN == 12

\* ----------------------------------------------------------------- values

UNDEF == <<"undefined">>
NoNumber == -1

Range(s) == {s[i] : i \in DOMAIN s}
Min(a, b) == IF a < b THEN a ELSE b

\* String.prototype.substring(0, n) for 0 <= n.
Substring0(s, n) == SubSeq(s, 1, Min(n, Len(s)))

\* Array.prototype.join: undefined and null elements become the empty string.
RECURSIVE Join(_, _)
Join(parts, sep) ==
    IF Len(parts) = 0 THEN <<>>
    ELSE LET h == IF Head(parts) = UNDEF THEN <<>> ELSE Head(parts)
         IN  IF Len(parts) = 1 THEN h ELSE h \o sep \o Join(Tail(parts), sep)

\* JavaScript truthiness of an optional string.
Truthy(s) == s # UNDEF /\ s # <<>>

\* a ?? b
Coalesce(a, b) == IF a # UNDEF THEN a ELSE b

\* Whether string t occurs in string s (String.prototype.includes).
Includes(s, t) ==
    \E i \in 0..(Len(s) - Len(t)) : SubSeq(s, i + 1, i + Len(t)) = t

\* --------------------------------------------------------- the input sets

ApiUrl1 == <<"h", ":", "/", "/", "a">>
\* Two credentials that agree on their first 12 characters, and a short one.
KeyA == <<"s", "k", "_", "0", "1", "2", "3", "4", "5", "6", "7", "8", "A">>
KeyB == <<"s", "k", "_", "0", "1", "2", "3", "4", "5", "6", "7", "8", "B">>
KeyC == <<"s", "k", "_", "c">>
Web == <<"w", "e", "b">>

\* interface EnvGuardsConfig: every field optional.
Config(apiUrl, apiKey, org, project, env, service) ==
    [apiUrl |-> apiUrl, apiKey |-> apiKey, org |-> org,
     project |-> project, env |-> env, service |-> service]

\* interface LoadEnvOptions. loadEnv() without options is NoOptions.
Options(config, timeout) == [config |-> config, timeout |-> timeout]

NoConfig == Config(UNDEF, UNDEF, UNDEF, UNDEF, UNDEF, UNDEF)
NoOptions == Options(NoConfig, NoNumber)

\* The options the host passes to loadEnv.
OptionSet ==
    { NoOptions,
      Options(Config(ApiUrl1, KeyA, UNDEF, UNDEF, UNDEF, UNDEF), NoNumber),
      Options(Config(ApiUrl1, UNDEF, Web, Web, Web, Web), 100) }

\* The bundles the bundle endpoint answers with ({ values: {...} }).
Bar == <<"b", "a", "r">>
Baz == <<"b", "a", "z">>
Old == <<"o", "l", "d">>
Bundle1 == [FOO |-> Bar]
Bundle2 == [FOO |-> Baz, QUX |-> Bar]
Bundles == {Bundle1, Bundle2}
NoBundle == [null |-> UNDEF]

\* A token as the exchange endpoint issues it: for one credential.
Token(key, n) == [iss |-> key, n |-> n]
NoToken == Token(UNDEF, 0)
TokenSerials == {1}

\* expiresAt of an exchange response. The wire format is an ISO-8601 string
\* with millisecond precision, which new Date(s).getTime() maps back to the
\* instant exactly; the model carries the instant.
ExpiresAtValues == {TOKEN_SKEW_MS + 1, TOKEN_SKEW_MS + MaxClock + 1}

\* What the optional secret store (keytar) yields for the composite account:
\* a stored key, or nothing (no entry, the module is missing, or it throws).
KeytarOutcomes == {UNDEF, KeyC}

\* ------------------------------------------------------------------ errors

\* new Error(message): the message as its literal segments.
Err(message) == [message |-> message]
NoError == Err(<<>>)

BrowserError ==
    Err(<<"[Env.Guards] Security Warning: SDK execution attempting in browser environment. This SDK is server-only.">>)
MissingConfigError ==
    Err(<<"[Env.Guards] Missing required configuration: ", "apiUrl", " is required.">>)
RuntimeKeyError ==
    Err(<<"[Env.Guards] Runtime key not found. Please set ", "ENV_GUARDS_API_KEY",
          ", use ", "env-guards run", ", or run ", "env-guards add-runtime-key", ".">>)
TimeoutError(timeout) ==
    Err(<<"[Env.Guards] Request timed out after ", ToString(timeout), "ms">>)
NetworkError == Err(<<"fetch failed">>)
ExchangeFailedError(status) ==
    Err(<<"[Env.Guards] Auth exchange failed: ", ToString(status)>>)
UnauthorizedError == Err(<<"401">>)
FetchFailedError(status) ==
    Err(<<"[Env.Guards] Fetch bundle failed: ", ToString(status)>>)

\* A promise's state: pending, fulfilled with a bundle, rejected with an error.
Pending == [status |-> "pending", value |-> NoBundle, reason |-> NoError]
Fulfilled(v) == [status |-> "fulfilled", value |-> v, reason |-> NoError]
Rejected(e) == [status |-> "rejected", value |-> NoBundle, reason |-> e]

\* ------------------------------------------------------------ the network

\* How one fetch() ends: a response, the abort of the timeout, another failure.
Response(status, body) == [kind |-> "response", status |-> status, body |-> body]
Aborted == [kind |-> "abort", status |-> 0, body |-> NoBundle]
Failed == [kind |-> "error", status |-> 0, body |-> NoBundle]

\* Response.ok
Ok(res) == res.status >= 200 /\ res.status <= 299

\* POST /v1/auth/exchange for credential key: 200 { token, expiresAt }, or not.
ExchangeOutcomes(key) ==
    {Response(200, [token |-> Token(key, n), expiresAt |-> e]) :
        n \in TokenSerials, e \in ExpiresAtValues}
    \cup {Response(401, NoBundle), Response(500, NoBundle), Aborted, Failed}

\* GET /v1/bundle: 200 { values }, 401, or not.
BundleOutcomes ==
    {Response(200, [values |-> b]) : b \in Bundles}
    \cup {Response(401, NoBundle), Response(500, NoBundle), Aborted, Failed}

\* try { await fetch(...) } catch: the response, or the error thrown.
FetchWithTimeout(outcome, timeout) ==
    CASE outcome.kind = "response" -> [ok |-> TRUE, res |-> outcome, err |-> NoError]
      [] outcome.kind = "abort" ->
            [ok |-> FALSE, res |-> outcome, err |-> TimeoutError(timeout)]
      [] OTHER -> [ok |-> FALSE, res |-> outcome, err |-> NetworkError]

\* ---------------------------------------------------------- pure functions

\* Mutant: the check is skipped.
CheckBrowserThrows_Never(window) == FALSE

\* function checkBrowser: throws iff a global window exists.
CheckBrowserThrows(window) == window

\* process.env[name]
EnvGet(env, name) == IF name \in DOMAIN env THEN env[name] ELSE UNDEF

\* function getFullConfig: an explicit field wins over the ambient default.
GetFullConfig(options, env) ==
    Config(Coalesce(options.config.apiUrl, EnvGet(env, "ENV_GUARDS_API_URL")),
           Coalesce(options.config.apiKey, EnvGet(env, "ENV_GUARDS_API_KEY")),
           Coalesce(options.config.org, EnvGet(env, "ENV_GUARDS_ORG")),
           Coalesce(options.config.project, EnvGet(env, "ENV_GUARDS_PROJECT")),
           Coalesce(options.config.env, EnvGet(env, "ENV_GUARDS_ENV")),
           Coalesce(options.config.service, EnvGet(env, "ENV_GUARDS_SERVICE")))

\* if (!apiUrl) throw: the configuration check of loadEnvInternal. The set of
\* errors thrown (empty when the configuration passes).
ValidateConfig(config) ==
    IF ~Truthy(config.apiUrl) THEN {MissingConfigError} ELSE {}

\* function resolveRuntimeKey: the key, or UNDEF when it throws. keytar is what
\* the secret store yields, asked only when the account is fully specified.
ResolveRuntimeKey(config, env, keytar) ==
    IF Truthy(config.apiKey) THEN config.apiKey
    ELSE IF Truthy(EnvGet(env, "ENV_GUARDS_API_KEY"))
         THEN EnvGet(env, "ENV_GUARDS_API_KEY")
    ELSE IF Truthy(config.apiUrl) /\ Truthy(config.org) /\ Truthy(config.project)
            /\ Truthy(config.env) /\ Truthy(config.service) /\ Truthy(keytar)
         THEN keytar
    ELSE UNDEF

\* function getConfigFingerprint
GetConfigFingerprint(apiUrl, runtimeKey, config) ==
    LET keyPrefix == Substring0(runtimeKey, KEY_PREFIX_LEN)
    IN  Join(<<apiUrl, keyPrefix, config.org, config.project, config.env,
               config.service>>, <<"|">>)

\* interface CacheState
CacheState(token, tokenExpiresAt, bundle) ==
    [token |-> token, tokenExpiresAt |-> tokenExpiresAt, bundle |-> bundle]
EmptyCacheState == CacheState(NoToken, NoNumber, NoBundle)

\* Mutant: the skew margin is forgotten.
TokenValid_NoSkew(state, now) ==
    /\ state.token # NoToken
    /\ state.tokenExpiresAt # NoNumber /\ state.tokenExpiresAt # 0
    /\ state.tokenExpiresAt > now

\* Mutant: the skew margin is one millisecond too wide.
TokenValid_Wider(state, now) ==
    /\ state.token # NoToken
    /\ state.tokenExpiresAt # NoNumber /\ state.tokenExpiresAt # 0
    /\ state.tokenExpiresAt > now + TOKEN_SKEW_MS + 1

\* token && state.tokenExpiresAt && state.tokenExpiresAt > (now + TOKEN_SKEW_MS)
TokenValid(state, now) ==
    /\ state.token # NoToken
    /\ state.tokenExpiresAt # NoNumber /\ state.tokenExpiresAt # 0
    /\ state.tokenExpiresAt > now + TOKEN_SKEW_MS

\* Mutant: the arguments swapped, existing variables win over the bundle's.
ObjectAssign_KeepExisting(target, source) ==
    [k \in DOMAIN target \cup DOMAIN source |->
        IF k \in DOMAIN target THEN target[k] ELSE source[k]]

\* Object.assign(target, source)
ObjectAssign(target, source) ==
    [k \in DOMAIN target \cup DOMAIN source |->
        IF k \in DOMAIN source THEN source[k] ELSE target[k]]

\* Mutant: every error of the bundle fetch starts the retry.
IsRetrySignal_Any(err) == TRUE

\* catch (err) { if (err.message === '401') ... }
IsRetrySignal(err) == err.message = <<"401">>

\* ------------------------------------------------------------------ state

VARIABLES
    processEnv,          \* process.env: the host environment sink and the ambient defaults
    cache,               \* const cache = new Map<string, CacheState>(): fingerprint -> object
    heap,                \* the CacheState objects ever created, by address
    pendingLoadPromise,  \* let pendingLoadPromise: 0 is null, else the computation's id
    loads,               \* the loadEnvInternal computations started, by id
    calls,               \* the loadEnv calls made, in order, with the promise each got
    clock                \* Date.now()

vars == <<processEnv, cache, heap, pendingLoadPromise, loads, calls, clock>>

\* A request on the wire: the operation and its bearer (key or token).
Request(op, key, token) == [op |-> op, key |-> key, token |-> token]
NoRequest == Request("none", UNDEF, NoToken)

\* One loadEnvInternal computation: where it is suspended (pc), its locals, the
\* promise it settles (result), and what it has done so far: the requests it
\* issued in order and how each was answered, the last bundle a fetch
\* answered, the sink and the cache entry as it found them, whether it created
\* the entry, whether a caller with another configuration was handed its promise,
\* whether a global window existed when it started, the cache as it found it.
\*   pc: "await_key" | "exchange" | "fetch" | "retry_exchange" | "retry_fetch"
\*       | "settled" (the promise is settled, the finally callback is queued)
\*       | "done" (the finally callback ran; the promise callers hold is settled)
NewLoad(env) ==
    [pc |-> "settled", config |-> NoConfig, timeout |-> NoNumber,
     runtimeKey |-> UNDEF, now |-> NoNumber, fingerprint |-> UNDEF, state |-> 0,
     token |-> NoToken, tokenValid |-> FALSE, req |-> NoRequest,
     result |-> Pending, requests |-> <<>>, answers |-> <<>>,
     fetched |-> NoBundle, envBefore |-> env, entryBefore |-> EmptyCacheState,
     created |-> FALSE, otherConfig |-> FALSE, window |-> FALSE,
     cacheBefore |-> <<>>, heapBefore |-> <<>>, stale |-> 0]

\* A computation whose callers have all been answered keeps its id only.
DoneLoad == [NewLoad(NoBundle) EXCEPT !.pc = "done"]

\* What stays on record of a computation once its finally callback has run,
\* until the next one has finished:
\* the address of its entry if that held a bundle, its exchange succeeded and
\* the bundle fetch that followed failed with an error other than 401 (the
\* load was stale), else nothing.
Finished(l) ==
    [DoneLoad EXCEPT !.stale =
        IF /\ l.result.status = "rejected"
           /\ l.requests = <<"exchange", "bundle">>
           /\ l.answers[1] = "200"
           /\ l.entryBefore.bundle # NoBundle
        THEN l.state ELSE 0]

LoadIds == 1..Len(loads)
\* The computations that are suspended at an await.
InFlight == {l \in LoadIds : loads[l].pc \notin {"settled", "done"}}
\* The computations whose promise, as callers hold it, is not settled yet.
Unsettled == {l \in LoadIds : loads[l].pc # "done"}
\* The computations with a request on the wire.
Outstanding == {l \in LoadIds :
                  loads[l].pc \in {"exchange", "fetch", "retry_exchange", "retry_fetch"}}

TypeOK ==
    /\ pendingLoadPromise \in 0..Len(loads)
    /\ Len(calls) <= MaxCalls
    /\ Len(loads) <= Len(calls)
    /\ clock \in 0..MaxClock
    /\ \A f \in DOMAIN cache : cache[f] \in 1..Len(heap)

\* The ambient configuration of the host, and a variable it already holds.
AmbientSet ==
    { [FOO |-> Old],
      [FOO |-> Old, ENV_GUARDS_API_URL |-> ApiUrl1, ENV_GUARDS_API_KEY |-> KeyA] }

Init ==
    /\ processEnv \in AmbientSet
    /\ cache = <<>>
    /\ heap = <<>>
    /\ pendingLoadPromise = 0
    /\ loads = <<>>
    /\ calls = <<>>
    /\ clock = 0

\* ---------------------------------------------------------------- actions

\* Mutant: no gate, every call starts a computation.
GateClosed_Never(options) == FALSE

\* Mutant: a per-configuration gate, closed only to callers that pass the
\* configuration of the pending computation.
GateClosed_SameConfig(options) ==
    /\ pendingLoadPromise # 0
    /\ GetFullConfig(options, processEnv) = loads[pendingLoadPromise].config

\* if (pendingLoadPromise) return pendingLoadPromise; whatever the options are.
GateClosed(options) == pendingLoadPromise # 0

\* A loadEnv call as the host sees it: the promise it got, the computations
\* whose promise was unsettled when it was made, whether it started one.
Call(promise, unsettled, started) ==
    [promise |-> promise, unsettled |-> unsettled, started |-> started]

\* loadEnvInternal up to its first await: checkBrowser, getFullConfig, the
\* apiUrl check, and the call of resolveRuntimeKey.
StartLoad(options, window) ==
    LET config == GetFullConfig(options, processEnv)
        errors == ValidateConfig(config)
        l == [NewLoad(processEnv) EXCEPT !.window = window,
                                         !.cacheBefore = cache, !.heapBefore = heap]
    IN  IF CheckBrowserThrows(window)
        THEN [l EXCEPT !.result = Rejected(BrowserError)]
        ELSE IF errors # {}
        THEN [l EXCEPT !.config = config,
                       !.result = Rejected(CHOOSE e \in errors : TRUE)]
        ELSE [l EXCEPT !.pc = "await_key", !.config = config,
                       !.timeout = IF options.timeout # NoNumber
                                   THEN options.timeout ELSE DEFAULT_TIMEOUT]

\* export function loadEnv(options)
LoadEnv(options, window) ==
    /\ Len(calls) < MaxCalls
    /\ IF GateClosed(options)
       THEN /\ calls' = Append(calls, Call(pendingLoadPromise, Unsettled, FALSE))
            /\ loads' = [loads EXCEPT ![pendingLoadPromise].otherConfig =
                            @ \/ GetFullConfig(options, processEnv)
                                    # loads[pendingLoadPromise].config]
            /\ UNCHANGED pendingLoadPromise
       ELSE /\ loads' = Append(loads, StartLoad(options, window))
            /\ pendingLoadPromise' = Len(loads) + 1
            /\ calls' = Append(calls, Call(Len(loads) + 1, Unsettled, TRUE))
    /\ UNCHANGED <<processEnv, cache, heap, clock>>

\* How an answer is logged: the status of a response, else the kind of failure.
AnswerOf(outcome) ==
    IF outcome.kind = "response" THEN ToString(outcome.status) ELSE outcome.kind

\* The request a computation puts on the wire, and where it then waits.
Issue(l, pc, req) ==
    [l EXCEPT !.pc = pc, !.req = req, !.requests = Append(@, req.op)]

\* return: the promise is fulfilled.
Return(l, value) == [l EXCEPT !.pc = "settled", !.result = Fulfilled(value)]
\* throw: the promise is rejected.
Throw(l, err) == [l EXCEPT !.pc = "settled", !.result = Rejected(err)]

\* state.token = data.token; state.tokenExpiresAt = new Date(data.expiresAt).getTime();
StoreToken(state, token, expiresAt) ==
    [state EXCEPT !.token = token, !.tokenExpiresAt = expiresAt]

\* Mutant: the fetched bundle is not kept in the entry.
StoreBundle_Skip(state, values) == state

\* state.bundle = values;
StoreBundle(state, values) == [state EXCEPT !.bundle = values]

\* Mutant: the retry clears the expiry with the token.
ClearForRetry_Expiry(state) ==
    [state EXCEPT !.token = NoToken, !.tokenExpiresAt = NoNumber, !.bundle = NoBundle]

\* state.token = null; state.bundle = null;
ClearForRetry(state) == [state EXCEPT !.token = NoToken, !.bundle = NoBundle]

\* Mutant: a cached bundle is applied to the sink before the token is looked at.
Evaluate_Eager(l, state, env, now) ==
    LET tokenValid == TokenValid(state, now)
        l1 == [l EXCEPT !.now = now, !.token = state.token,
                        !.tokenValid = tokenValid, !.entryBefore = state]
        env1 == IF state.bundle # NoBundle THEN ObjectAssign(env, state.bundle) ELSE env
    IN  IF ~tokenValid
        THEN [load |-> Issue(l1, "exchange", Request("exchange", l.runtimeKey, NoToken)),
              env |-> env1]
        ELSE IF state.bundle # NoBundle
        THEN [load |-> Return(l1, state.bundle), env |-> env1]
        ELSE [load |-> Issue(l1, "fetch", Request("bundle", UNDEF, state.token)),
              env |-> env1]

\* Lines 143-156 up to the next await, for computation l that holds the cache
\* entry state at instant now: the exchange request when the token is not
\* valid, else the cached bundle applied and returned, else the bundle request.
Evaluate(l, state, env, now) ==
    LET tokenValid == TokenValid(state, now)
        l1 == [l EXCEPT !.now = now, !.token = state.token,
                        !.tokenValid = tokenValid, !.entryBefore = state]
    IN  IF ~tokenValid
        THEN [load |-> Issue(l1, "exchange", Request("exchange", l.runtimeKey, NoToken)),
              env |-> env]
        ELSE IF state.bundle # NoBundle
        THEN [load |-> Return(l1, state.bundle), env |-> ObjectAssign(env, state.bundle)]
        ELSE [load |-> Issue(l1, "fetch", Request("bundle", UNDEF, state.token)),
              env |-> env]

\* Mutant: the store keeps one entry, the last one set.
CacheSet_Evict(c, fingerprint, addr) == [f \in {fingerprint} |-> addr]

\* cache.set(fingerprint, state): the map with the object at addr under fingerprint.
CacheSet(c, fingerprint, addr) ==
    [f \in DOMAIN c \cup {fingerprint} |-> IF f = fingerprint THEN addr ELSE c[f]]

\* Lines 132-141 once resolveRuntimeKey has answered: the key or the throw, and
\* the cache entry of the fingerprint, created empty when absent; then Evaluate.
ResolveKeyDone(id, keytar) ==
    LET l == loads[id]
        runtimeKey == ResolveRuntimeKey(l.config, processEnv, keytar)
        fingerprint == GetConfigFingerprint(l.config.apiUrl, runtimeKey, l.config)
        has == fingerprint \in DOMAIN cache
        addr == IF has THEN cache[fingerprint] ELSE Len(heap) + 1
        state == IF has THEN heap[addr] ELSE EmptyCacheState
        l1 == [l EXCEPT !.runtimeKey = runtimeKey, !.fingerprint = fingerprint,
                        !.state = addr, !.created = ~has]
        step == Evaluate(l1, state, processEnv, clock)
    IN  /\ l.pc = "await_key"
        /\ IF runtimeKey = UNDEF
           THEN /\ loads' = [loads EXCEPT ![id] = Throw(l, RuntimeKeyError)]
                /\ UNCHANGED <<processEnv, cache, heap>>
           ELSE /\ cache' = IF has THEN cache ELSE CacheSet(cache, fingerprint, addr)
                /\ heap' = IF has THEN heap ELSE Append(heap, EmptyCacheState)
                /\ loads' = [loads EXCEPT ![id] = step.load]
                /\ processEnv' = step.env
        /\ UNCHANGED <<pendingLoadPromise, calls, clock>>

\* function exchangeToken, from the answer on: the error thrown, or NoError
\* with the token and expiry it writes into the cache entry.
ExchangeToken(outcome, timeout) ==
    LET f == FetchWithTimeout(outcome, timeout)
    IN  IF ~f.ok THEN [err |-> f.err, token |-> NoToken, expiresAt |-> NoNumber]
        ELSE IF ~Ok(f.res)
        THEN [err |-> ExchangeFailedError(f.res.status), token |-> NoToken,
              expiresAt |-> NoNumber]
        ELSE [err |-> NoError, token |-> f.res.body.token,
              expiresAt |-> f.res.body.expiresAt]

\* function fetchBundle, from the answer on: the error thrown, or NoError with
\* the values.
FetchBundle(outcome, timeout) ==
    LET f == FetchWithTimeout(outcome, timeout)
    IN  IF ~f.ok THEN [err |-> f.err, values |-> NoBundle]
        ELSE IF f.res.status = 401 THEN [err |-> UnauthorizedError, values |-> NoBundle]
        ELSE IF ~Ok(f.res) THEN [err |-> FetchFailedError(f.res.status), values |-> NoBundle]
        ELSE [err |-> NoError, values |-> f.res.body.values]

\* Mutant: the token is looked at again after the exchange, and a cached bundle
\* is returned without a fetch.
OnExchange_ReuseBundle(l, state, outcome) ==
    LET x == ExchangeToken(outcome, l.timeout)
        l1 == [l EXCEPT !.answers = Append(@, AnswerOf(outcome))]
        next == IF l.pc = "exchange" THEN "fetch" ELSE "retry_fetch"
    IN  IF x.err # NoError
        THEN [load |-> Throw(l1, x.err), state |-> state]
        ELSE IF state.bundle # NoBundle
        THEN [load |-> Return([l1 EXCEPT !.token = x.token], state.bundle),
              state |-> StoreToken(state, x.token, x.expiresAt)]
        ELSE [load |-> Issue([l1 EXCEPT !.token = x.token], next,
                             Request("bundle", UNDEF, x.token)),
              state |-> StoreToken(state, x.token, x.expiresAt)]

\* Lines 147 and 164-165 when the exchange is answered: the throw, or the token
\* written into the entry and the bundle request with that token.
OnExchange(l, state, outcome) ==
    LET x == ExchangeToken(outcome, l.timeout)
        l1 == [l EXCEPT !.answers = Append(@, AnswerOf(outcome))]
        next == IF l.pc = "exchange" THEN "fetch" ELSE "retry_fetch"
    IN  IF x.err # NoError
        THEN [load |-> Throw(l1, x.err), state |-> state]
        ELSE [load |-> Issue([l1 EXCEPT !.token = x.token], next,
                             Request("bundle", UNDEF, x.token)),
              state |-> StoreToken(state, x.token, x.expiresAt)]

\* The exchange request of a computation is answered.
ExchangeDone(id, outcome) ==
    LET l == loads[id]
        step == OnExchange(l, heap[l.state], outcome)
    IN  /\ l.pc \in {"exchange", "retry_exchange"}
        /\ outcome \in ExchangeOutcomes(l.runtimeKey)
        /\ loads' = [loads EXCEPT ![id] = step.load]
        /\ heap' = [heap EXCEPT ![l.state] = step.state]
        /\ UNCHANGED <<processEnv, cache, pendingLoadPromise, calls, clock>>

\* Mutant: the retry is itself retried, a loop on 401.
RetryAllowed_Always(pc, err) == IsRetrySignal(err)

\* Mutant: the entry's bundle is dropped on every failure of the bundle fetch.
OnFetch_DropBundle(l, state, env, outcome) ==
    LET b == FetchBundle(outcome, l.timeout)
        l1 == [l EXCEPT !.answers = Append(@, AnswerOf(outcome))]
    IN  IF b.err = NoError
        THEN [load |-> Return([l1 EXCEPT !.fetched = b.values], b.values),
              state |-> StoreBundle(state, b.values),
              env |-> ObjectAssign(env, b.values)]
        ELSE IF l.pc = "fetch" /\ IsRetrySignal(b.err)
        THEN [load |-> Issue(l1, "retry_exchange",
                             Request("exchange", l.runtimeKey, NoToken)),
              state |-> ClearForRetry(state), env |-> env]
        ELSE [load |-> Throw(l1, b.err), state |-> StoreBundle(state, NoBundle),
              env |-> env]

\* Whether the catch block of loadEnvInternal starts the retry: it wraps the
\* first bundle fetch only, and asks for the 401 signal.
RetryAllowed(pc, err) == pc = "fetch" /\ IsRetrySignal(err)

\* Lines 155-171 when the bundle request is answered: the bundle stored in the
\* entry, applied to the sink and returned; or, on the first 401, the entry's
\* token and bundle cleared and the exchange request again; or the throw.
OnFetch(l, state, env, outcome) ==
    LET b == FetchBundle(outcome, l.timeout)
        l1 == [l EXCEPT !.answers = Append(@, AnswerOf(outcome))]
    IN  IF b.err = NoError
        THEN [load |-> Return([l1 EXCEPT !.fetched = b.values], b.values),
              state |-> StoreBundle(state, b.values),
              env |-> ObjectAssign(env, b.values)]
        ELSE IF RetryAllowed(l.pc, b.err)
        THEN [load |-> Issue(l1, "retry_exchange",
                             Request("exchange", l.runtimeKey, NoToken)),
              state |-> ClearForRetry(state), env |-> env]
        ELSE [load |-> Throw(l1, b.err), state |-> state, env |-> env]

\* The bundle request of a computation is answered.
FetchDone(id, outcome) ==
    LET l == loads[id]
        step == OnFetch(l, heap[l.state], processEnv, outcome)
    IN  /\ l.pc \in {"fetch", "retry_fetch"}
        /\ outcome \in BundleOutcomes
        /\ loads' = [loads EXCEPT ![id] = step.load]
        /\ heap' = [heap EXCEPT ![l.state] = step.state]
        /\ processEnv' = step.env
        /\ UNCHANGED <<cache, pendingLoadPromise, calls, clock>>

\* Mutant: .then instead of .finally, the handle is cleared on success only.
FinallyHandle_OnSuccess(id) ==
    IF loads[id].result.status = "fulfilled" THEN 0 ELSE pendingLoadPromise

\* .finally(() => { pendingLoadPromise = null; }): what the handle becomes.
FinallyHandle(id) == 0

\* The finally callback of a settled computation runs; the promise the callers
\* hold settles after it.
Finally(id) ==
    /\ loads[id].pc = "settled"
    /\ pendingLoadPromise' = FinallyHandle(id)
    /\ loads' = [j \in DOMAIN loads |->
                    IF j = id THEN Finished(loads[id])
                    ELSE IF loads[j].pc = "done" THEN DoneLoad ELSE loads[j]]
    /\ UNCHANGED <<processEnv, cache, heap, calls, clock>>

\* Time passes.
Tick ==
    /\ clock < MaxClock
    /\ clock' = clock + 1
    /\ UNCHANGED <<processEnv, cache, heap, pendingLoadPromise, loads, calls>>

\* The options of the calls made around _resetState: one explicit
\* configuration, and one whose key comes from the keychain.
ResetOptionSet ==
    {Options(Config(ApiUrl1, KeyA, UNDEF, UNDEF, UNDEF, UNDEF), NoNumber),
     Options(Config(ApiUrl1, UNDEF, Web, Web, Web, Web), 100)}

\* The answers of the network in those runs: success, 401 and a server error.
ResetExchangeOutcomes(key) ==
    {Response(200, [token |-> Token(key, 1), expiresAt |-> TOKEN_SKEW_MS + 1]),
     Response(500, NoBundle)}
ResetBundleOutcomes ==
    {Response(200, [values |-> Bundle1]), Response(401, NoBundle), Response(500, NoBundle)}

\* export function _resetState()
ResetState ==
    /\ cache' = <<>>
    /\ pendingLoadPromise' = 0
    /\ UNCHANGED <<processEnv, heap, loads, calls, clock>>

Next ==
    \/ \E options \in OptionSet, window \in BOOLEAN : LoadEnv(options, window)
    \/ \E id \in LoadIds, keytar \in KeytarOutcomes : ResolveKeyDone(id, keytar)
    \/ \E id \in LoadIds : \E outcome \in ExchangeOutcomes(loads[id].runtimeKey) :
          ExchangeDone(id, outcome)
    \/ \E id \in LoadIds, outcome \in BundleOutcomes : FetchDone(id, outcome)
    \/ \E id \in LoadIds : Finally(id)
    \/ Tick

\* The production program: loadEnv calls, awaits resuming, time passing.
Spec == Init /\ [][Next]_vars

\* The initial state of a host whose process.env configures nothing.
InitReset == Init /\ processEnv = [FOO |-> Old]

\* The options of a host that rotates its credential: the same endpoint and
\* scope with two credentials, which agree on their first 12 characters.
KeyOptionSet ==
    {Options(Config(ApiUrl1, KeyA, UNDEF, UNDEF, UNDEF, UNDEF), NoNumber),
     Options(Config(ApiUrl1, KeyB, UNDEF, UNDEF, UNDEF, UNDEF), NoNumber)}

NextKeys ==
    \/ \E options \in KeyOptionSet : LoadEnv(options, FALSE)
    \/ \E id \in LoadIds : ResolveKeyDone(id, UNDEF)
    \/ \E id \in LoadIds : \E outcome \in ExchangeOutcomes(loads[id].runtimeKey) :
          ExchangeDone(id, outcome)
    \/ \E id \in LoadIds, outcome \in BundleOutcomes : FetchDone(id, outcome)
    \/ \E id \in LoadIds : Finally(id)
    \/ Tick

\* The production program of a host that loads with one credential and then
\* with another.
SpecKeys == InitReset /\ [][NextKeys]_vars

\* A suspended computation resumes: the key lookup, the exchange or the bundle
\* request is answered (or times out), or the queued finally callback runs.
Resume ==
    \/ \E id \in LoadIds, keytar \in KeytarOutcomes : ResolveKeyDone(id, keytar)
    \/ \E id \in LoadIds : \E outcome \in ExchangeOutcomes(loads[id].runtimeKey) :
          ExchangeDone(id, outcome)
    \/ \E id \in LoadIds, outcome \in BundleOutcomes : FetchDone(id, outcome)
    \/ \E id \in LoadIds : Finally(id)

\* The production program when every await is eventually resumed: fetchWithTimeout
\* aborts a request that has not answered after the timeout, and the event
\* loop runs every queued callback.
SpecFair == Init /\ [][Next]_vars /\ WF_vars(Resume)

NextReset ==
    \/ \E options \in ResetOptionSet :
          Len(calls) < MaxResetCalls /\ LoadEnv(options, FALSE)
    \/ \E id \in LoadIds, keytar \in KeytarOutcomes : ResolveKeyDone(id, keytar)
    \/ \E id \in LoadIds : \E outcome \in ResetExchangeOutcomes(loads[id].runtimeKey) :
          ExchangeDone(id, outcome)
    \/ \E id \in LoadIds, outcome \in ResetBundleOutcomes : FetchDone(id, outcome)
    \/ \E id \in LoadIds : Finally(id)
    \/ ResetState

\* The program with its test hook: _resetState may be called between any two
\* steps, as a test's beforeEach does while an earlier test's load is pending.
SpecReset == InitReset /\ [][NextReset]_vars

\* ------------------------------------------------------------- properties

\* How many elements of seq are x.
Count(seq, x) == Cardinality({i \in DOMAIN seq : seq[i] = x})

\* The 401 answers the bundle requests of computation l got.
Unauthorized(l) ==
    {i \in DOMAIN l.answers : l.requests[i] = "bundle" /\ l.answers[i] = "401"}

\* The computations whose record is still held (the finally callback has not run).
Live == {id \in LoadIds : loads[id].pc # "done"}

IsFulfilled(l) == l.result.status = "fulfilled"
IsRejected(l) == l.result.status = "rejected"

\* C1: at every instant at most one load computation is in flight process-wide,
\* and at most one token-exchange or bundle-fetch request is outstanding.
C1_SingleFlight ==
    /\ Cardinality(InFlight) <= 1
    /\ Cardinality(Outstanding) <= 1

\* C1 witness: a request is on the wire while a second loadEnv call, with
\* another configuration, has been made.
C1_Witness ==
    \E id \in Outstanding :
        /\ loads[id].otherConfig
        /\ \E i \in DOMAIN calls : ~calls[i].started /\ calls[i].promise = id

\* C2: a loadEnv call made while an earlier load's promise is unsettled starts
\* no computation and gets that load's promise (so the same bundle or the same
\* error), whatever configuration it passes; the one computation they share
\* issues at most one exchange and one bundle fetch unless a 401 occurred.
C2_SharedOutcome ==
    /\ \A i \in DOMAIN calls :
          calls[i].unsettled # {} =>
              /\ ~calls[i].started
              /\ calls[i].unsettled = {calls[i].promise}
    /\ Len(loads) = Cardinality({i \in DOMAIN calls : calls[i].started})
    /\ \A id \in Live :
          Unauthorized(loads[id]) = {} =>
              /\ Count(loads[id].requests, "exchange") <= 1
              /\ Count(loads[id].requests, "bundle") <= 1

\* C2 witness: two later calls, one with another configuration, hold the
\* promise of the first call's load, which has settled after one exchange
\* and one fetch.
C2_Witness ==
    /\ Len(calls) = 3 /\ Len(loads) = 1
    /\ calls[2].promise = 1 /\ calls[3].promise = 1
    /\ loads[1].otherConfig
    /\ loads[1].pc = "settled"
    /\ loads[1].requests = <<"exchange", "bundle">>

\* C3: once a computation's finally callback has run (success or failure, also
\* a failure before any request) the handle no longer refers to it, and a
\* loadEnv call made when every earlier promise has settled starts a fresh
\* computation.
C3_GateClears ==
    /\ \A id \in LoadIds : loads[id].pc = "done" => pendingLoadPromise # id
    /\ Unsettled = {} => pendingLoadPromise = 0
    /\ \A i \in DOMAIN calls :
          calls[i].unsettled = {} =>
              /\ calls[i].started
              /\ calls[i].promise = Cardinality({j \in 1..i : calls[j].started})

\* C3 witness: a second computation was started after the first completed,
\* and it failed before its first request; the handle still refers to it.
C3_Witness ==
    /\ Len(loads) = 2
    /\ loads[1].pc = "done"
    /\ loads[2].pc = "settled" /\ IsRejected(loads[2]) /\ loads[2].requests = <<>>
    /\ pendingLoadPromise = 2

\* A cache entry that holds a token whose expiry is beyond now + 30 s.
HoldsFreshToken(state, now) ==
    state.token # NoToken /\ state.tokenExpiresAt > now + TOKEN_SKEW_MS

\* C4: a cold load (its entry held no token and no bundle) whose exchange and
\* bundle fetch both succeeded issued exactly one exchange and then exactly one
\* bundle fetch, returned the bundle the fetch answered, and left that bundle
\* and the exchanged token in the cache entry of its fingerprint.
C4_ColdLoad ==
    \A id \in Live :
        LET l == loads[id] IN
        (/\ l.pc = "settled" /\ IsFulfilled(l)
         /\ l.entryBefore.token = NoToken /\ l.entryBefore.bundle = NoBundle
         /\ Unauthorized(l) = {})
        => /\ l.requests = <<"exchange", "bundle">>
           /\ l.answers = <<"200", "200">>
           /\ l.fetched \in Bundles
           /\ l.result.value = l.fetched
           /\ l.fingerprint \in DOMAIN cache /\ cache[l.fingerprint] = l.state
           /\ heap[l.state].bundle = l.fetched
           /\ heap[l.state].token = l.token
           /\ l.token \in {Token(l.runtimeKey, n) : n \in TokenSerials}

\* C4 witness: a cold load that created its entry has returned Bundle2.
C4_Witness ==
    \E id \in Live :
        /\ loads[id].pc = "settled" /\ loads[id].created
        /\ loads[id].result = Fulfilled(Bundle2)
        /\ loads[id].requests = <<"exchange", "bundle">>

\* C5: a load that finds in its entry a token whose expiry is beyond now + 30 s
\* and a bundle issues no request, returns the cached bundle, and leaves the
\* entry as it was.
C5_CacheHit ==
    \A id \in Live :
        LET l == loads[id] IN
        (/\ l.now # NoNumber
         /\ HoldsFreshToken(l.entryBefore, l.now)
         /\ l.entryBefore.bundle # NoBundle)
        => /\ l.requests = <<>>
           /\ l.pc = "settled"
           /\ l.result = Fulfilled(l.entryBefore.bundle)
           /\ heap[l.state] = l.entryBefore

\* C5 witness: a load served from the cache, the token's expiry being exactly
\* one millisecond beyond now + 30 s.
C5_Witness ==
    \E id \in Live :
        /\ loads[id].now # NoNumber
        /\ loads[id].entryBefore.tokenExpiresAt = loads[id].now + TOKEN_SKEW_MS + 1
        /\ loads[id].entryBefore.token # NoToken
        /\ loads[id].entryBefore.bundle # NoBundle
        /\ loads[id].pc = "settled" /\ IsFulfilled(loads[id])

\* The first 401 answer to a bundle request of l (0 when there is none).
First401(l) ==
    IF Unauthorized(l) = {} THEN 0
    ELSE CHOOSE i \in Unauthorized(l) : \A j \in Unauthorized(l) : i <= j

\* C6: a 401 from the bundle fetch starts exactly one retry cycle: the entry's
\* token and bundle are cleared and one exchange request goes out, then at most
\* one bundle request; any failure in the cycle, a second 401 included, ends
\* the load in failure; one load issues at most 2 exchanges and 2 fetches.
C6_RetryOnce ==
    \A id \in Live :
        LET l == loads[id]
            i == First401(l)
        IN  /\ Count(l.requests, "exchange") <= 2
            /\ Count(l.requests, "bundle") <= 2
            /\ i # 0 =>
                /\ Len(l.requests) \in {i + 1, i + 2}
                /\ l.requests[i + 1] = "exchange"
                /\ Len(l.requests) = i + 2 => l.requests[i + 2] = "bundle"
                /\ l.pc = "retry_exchange" =>
                      /\ heap[l.state].token = NoToken
                      /\ heap[l.state].bundle = NoBundle
                /\ (Len(l.answers) > i /\ l.answers[i + 1] = "200") =>
                      Len(l.requests) = i + 2
                /\ \A j \in DOMAIN l.answers :
                      (j > i /\ l.answers[j] # "200") =>
                          l.pc = "settled" /\ IsRejected(l) /\ j = Len(l.requests)

\* C6 witness: a load that failed on the second 401, after 2 exchanges and 2
\* bundle fetches.
C6_Witness ==
    \E id \in Live :
        /\ loads[id].pc = "settled"
        /\ loads[id].result = Rejected(UnauthorizedError)
        /\ loads[id].requests = <<"exchange", "bundle", "exchange", "bundle">>
        /\ loads[id].answers = <<"200", "401", "200", "401">>

\* The error a failed request surfaces as: the operation, how it was answered,
\* and the timeout of the load.
SurfacedError(op, answer, timeout) ==
    CASE answer = "abort" ->
            Err(<<"[Env.Guards] Request timed out after ", ToString(timeout), "ms">>)
      [] answer = "error" -> Err(<<"fetch failed">>)
      [] op = "exchange" -> Err(<<"[Env.Guards] Auth exchange failed: ", answer>>)
      [] OTHER -> Err(<<"[Env.Guards] Fetch bundle failed: ", answer>>)

\* C7: a failure other than a 401 from the bundle fetch ends the load at once
\* with that error: the failed request is the last one the load issued; a
\* configuration, browser or credential error is thrown before any request.
C7_NoRetryOnOtherErrors ==
    \A id \in Live :
        LET l == loads[id] IN
        /\ \A i \in DOMAIN l.answers :
              (l.answers[i] # "200" /\ ~(l.requests[i] = "bundle" /\ l.answers[i] = "401"))
              => /\ i = Len(l.requests)
                 /\ l.pc = "settled"
                 /\ l.result = Rejected(SurfacedError(l.requests[i], l.answers[i], l.timeout))
        /\ (IsRejected(l) /\ l.result.reason \in {MissingConfigError, RuntimeKeyError})
              => l.requests = <<>>

\* C7 witness: a load whose bundle fetch timed out after a successful exchange,
\* and that failed with the timeout error.
C7_Witness ==
    \E id \in Live :
        /\ loads[id].requests = <<"exchange", "bundle">>
        /\ loads[id].answers = <<"200", "abort">>
        /\ loads[id].result = Rejected(TimeoutError(DEFAULT_TIMEOUT))

\* C8: right after a successful load every key of the returned bundle is in the
\* sink with the bundle's value.
C8_SinkHasBundle ==
    \A id \in Live :
        LET l == loads[id] IN
        (l.pc = "settled" /\ IsFulfilled(l)) =>
            \A k \in DOMAIN l.result.value :
                k \in DOMAIN processEnv /\ processEnv[k] = l.result.value[k]

\* C8 witness: a load recovered by the 401 retry has returned a bundle whose
\* FOO replaced the value the sink held before.
C8_Witness ==
    \E id \in Live :
        /\ loads[id].pc = "settled" /\ IsFulfilled(loads[id])
        /\ Unauthorized(loads[id]) # {}
        /\ loads[id].envBefore["FOO"] # loads[id].result.value["FOO"]
        /\ processEnv["FOO"] = loads[id].result.value["FOO"]

\* C9: a load that has not succeeded has left the sink as it found it; one
\* that succeeded changed exactly the keys of its bundle.
C9_FailedLoadLeavesSink ==
    \A id \in Live :
        LET l == loads[id] IN
        /\ ~IsFulfilled(l) => processEnv = l.envBefore
        /\ IsFulfilled(l) =>
              /\ DOMAIN processEnv = DOMAIN l.envBefore \cup DOMAIN l.result.value
              /\ \A k \in DOMAIN processEnv :
                    processEnv[k] = IF k \in DOMAIN l.result.value
                                    THEN l.result.value[k] ELSE l.envBefore[k]

\* C9 witness: a load failed in the retry after a first 401, with a bundle of
\* another value cached before it, and the sink is as before.
C9_Witness ==
    \E id \in Live :
        /\ loads[id].pc = "settled" /\ IsRejected(loads[id])
        /\ Unauthorized(loads[id]) # {}
        /\ loads[id].entryBefore.bundle # NoBundle
        /\ processEnv = loads[id].envBefore

\* The names by which a message can name the credential.
CredentialNames == {"apiKey", "ENV_GUARDS_API_KEY"}

\* C10: a load whose configuration lacks both the endpoint URL and the
\* credential fails before any request with an error that names both fields.
C10_NamesBothMissing ==
    \A id \in Live :
        LET l == loads[id] IN
        (/\ IsRejected(l) /\ l.result.reason # BrowserError
         /\ ~Truthy(l.config.apiUrl) /\ ~Truthy(l.config.apiKey))
        => /\ l.requests = <<>>
           /\ "apiUrl" \in Range(l.result.reason.message)
           /\ CredentialNames \cap Range(l.result.reason.message) # {}

\* C11: a load started while a global window exists is rejected with the
\* browser error in its first step: it issues no request, holds no cache
\* entry, leaves the cache, its entries and the sink as they were; and once its
\* finally callback has run the handle no longer refers to it.
C11_BrowserFailsFirst ==
    /\ \A id \in Live :
          LET l == loads[id] IN
          l.window =>
              /\ l.pc = "settled" /\ l.result = Rejected(BrowserError)
              /\ l.requests = <<>>
              /\ l.state = 0 /\ ~l.created
              /\ cache = l.cacheBefore /\ heap = l.heapBefore
              /\ processEnv = l.envBefore
    /\ \A id \in LoadIds : loads[id].pc = "done" => pendingLoadPromise # id

\* C11 witness: with a bundle in the cache and a configuration that would be
\* served from it, a load started under a window has been rejected.
C11_Witness ==
    \E id \in Live :
        /\ loads[id].window /\ loads[id].pc = "settled"
        /\ loads[id].result = Rejected(BrowserError)
        /\ \E a \in DOMAIN heap : heap[a].bundle # NoBundle

\* C12: at its token evaluation a load issues the exchange request first if
\* and only if the entry's token is not valid (valid: a token is present, an
\* expiry is present, and the expiry is strictly beyond now + 30 s); a
\* successful exchange is always followed by the bundle request, which carries
\* the token just exchanged, whatever that token's expiry.
C12_ExchangeIffInvalid ==
    \A id \in Live :
        LET l == loads[id]
            e == l.entryBefore
            valid == /\ e.token # NoToken
                     /\ e.tokenExpiresAt # NoNumber
                     /\ e.tokenExpiresAt > l.now + TOKEN_SKEW_MS
            n == Len(l.requests)
        IN  l.now # NoNumber =>
            /\ ~valid <=> (n > 0 /\ l.requests[1] = "exchange")
            /\ \A i \in DOMAIN l.answers :
                  (l.requests[i] = "exchange" /\ l.answers[i] = "200") =>
                      n > i /\ l.requests[i + 1] = "bundle"
            /\ (n >= 2 /\ l.requests[n] = "bundle" /\ l.requests[n - 1] = "exchange") =>
                  /\ l.req.token # NoToken /\ l.req.token = l.token
                  /\ l.pc \in {"fetch", "retry_fetch"} =>
                        heap[l.state].token = l.req.token

\* C12 witness: the bundle request is on the wire with a token just exchanged
\* whose expiry is not beyond now + 30 s.
C12_Witness ==
    \E id \in Live :
        /\ loads[id].pc = "fetch"
        /\ loads[id].requests = <<"exchange", "bundle">>
        /\ heap[loads[id].state].token = loads[id].req.token
        /\ heap[loads[id].state].tokenExpiresAt <= loads[id].now + TOKEN_SKEW_MS

\* The step writes the token or the expiry of the CacheState object at a.
TokenFieldsChange(a) ==
    \/ heap'[a].token # heap[a].token
    \/ heap'[a].tokenExpiresAt # heap[a].tokenExpiresAt

\* The step is computation id receiving a 200 answer to its exchange request.
ExchangeSucceeds(id) ==
    /\ loads[id].pc \in {"exchange", "retry_exchange"}
    /\ Len(loads'[id].answers) = Len(loads[id].answers) + 1
    /\ loads'[id].answers[Len(loads'[id].answers)] = "200"

\* The step is computation id receiving the 401 that starts its retry.
RetryStarts(id) ==
    /\ loads[id].pc = "fetch" /\ loads'[id].pc = "retry_exchange"
    /\ loads'[id].answers = Append(loads[id].answers, "401")

\* C13 as stated: the token and the expiry of a cache entry are written only by
\* a successful exchange; no other step, the 401 retry handling included,
\* changes either field.
C13_OnlyExchangeWrites ==
    [][\A a \in DOMAIN heap :
          TokenFieldsChange(a) =>
              \E id \in LoadIds : loads[id].state = a /\ ExchangeSucceeds(id)]_vars

\* C13, amended: the token and the expiry of a cache entry are written only by
\* a successful exchange of a load that holds the entry, except that the 401
\* retry handling sets the token to null; it leaves the expiry as it was. No
\* other step changes either field.
C13_ExchangeWritesRetryClears ==
    [][\A a \in DOMAIN heap :
          TokenFieldsChange(a) =>
              \E id \in LoadIds :
                  /\ loads[id].state = a
                  /\ \/ ExchangeSucceeds(id)
                     \/ /\ RetryStarts(id)
                        /\ heap'[a].token = NoToken
                        /\ heap'[a].tokenExpiresAt = heap[a].tokenExpiresAt]_vars

\* C13 witness: the 401 handling has cleared the token of an entry and left
\* its expiry; the retry's exchange is on the wire.
C13_Witness ==
    \E id \in Live :
        /\ loads[id].pc = "retry_exchange"
        /\ heap[loads[id].state].token = NoToken
        /\ heap[loads[id].state].tokenExpiresAt # NoNumber

\* The step is a step of a load that holds the CacheState object at address a
\* as the entry of fingerprint f.
StepOfHolder(f, a) ==
    \E id \in LoadIds :
        /\ loads[id].fingerprint = f /\ loads[id].state = a
        /\ loads[id].pc \in {"exchange", "fetch", "retry_exchange", "retry_fetch"}
        /\ loads'[id] # loads[id]

\* The step is a load creating the entry of fingerprint f for its own use.
StepCreates(f) ==
    \E id \in LoadIds :
        /\ loads[id].pc = "await_key"
        /\ loads'[id].fingerprint = f /\ loads'[id].state = cache'[f]
        /\ loads'[id].created

\* C14: in every step, _resetState included: an entry leaves the cache only
\* when the whole store is cleared by _resetState; an entry that stays keeps
\* its object, and the object changes only in a step of a load whose own
\* fingerprint it is stored under; a new entry is a new object with all fields
\* empty, created by a load under its own fingerprint.
C14_OwnEntryOnly ==
    [][/\ \A f \in DOMAIN cache :
            IF f \in DOMAIN cache'
            THEN /\ cache'[f] = cache[f]
                 /\ heap'[cache[f]] # heap[cache[f]] => StepOfHolder(f, cache[f])
            ELSE /\ cache' = <<>> /\ pendingLoadPromise' = 0
                 /\ UNCHANGED <<processEnv, heap, loads, calls, clock>>
       /\ \A f \in DOMAIN cache' \ DOMAIN cache :
            /\ cache'[f] \notin DOMAIN heap
            /\ heap'[cache'[f]] = EmptyCacheState
            /\ StepCreates(f)]_vars

\* C14 witness: a load has created the entry of its fingerprint and stored a
\* bundle in it, while the entry of another fingerprint still holds a token
\* and no bundle.
C14_Witness ==
    \E id \in Live :
        /\ loads[id].pc = "settled" /\ loads[id].created /\ IsFulfilled(loads[id])
        /\ loads[id].fingerprint \in DOMAIN cache
        /\ heap[cache[loads[id].fingerprint]].bundle # NoBundle
        /\ \E f \in DOMAIN cache :
              /\ f # loads[id].fingerprint
              /\ heap[cache[f]].token # NoToken /\ heap[cache[f]].bundle = NoBundle

\* C15: for every credential and configuration a load resolves, the
\* fingerprint does not contain the full credential: it is the endpoint, the
\* credential's first 12 characters at most, and the scope fields, joined.
C15_NoFullCredential ==
    \A id \in Live :
        LET l == loads[id] IN
        l.fingerprint # UNDEF =>
            /\ ~Includes(l.fingerprint, l.runtimeKey)
            /\ \E n \in 0..KEY_PREFIX_LEN :
                  l.fingerprint =
                      Join(<<l.config.apiUrl, SubSeq(l.runtimeKey, 1, n), l.config.org,
                             l.config.project, l.config.env, l.config.service>>, <<"|">>)

\* C16: a load returns without a bundle request only when its entry held a
\* bundle and a token that was valid as it found it, and then it issued no
\* request at all; a load whose exchange succeeded has sent a bundle request
\* right after it, whether or not a bundle was cached; and a load that returns
\* after a bundle request returns the fetched bundle and has put it in its
\* entry in place of the cached one.
C16_FetchAfterExchange ==
    \A id \in Live :
        LET l == loads[id]
            e == l.entryBefore
            n == Len(l.requests)
        IN  l.now # NoNumber =>
            /\ (l.pc = "settled" /\ IsFulfilled(l) /\ Count(l.requests, "bundle") = 0) =>
                  /\ e.bundle # NoBundle /\ HoldsFreshToken(e, l.now)
                  /\ n = 0
            /\ (n > 0 /\ l.requests[1] = "exchange"
                      /\ Len(l.answers) > 0 /\ l.answers[1] = "200") =>
                  n >= 2 /\ l.requests[2] = "bundle"
            /\ (l.pc = "settled" /\ IsFulfilled(l) /\ Count(l.requests, "bundle") > 0) =>
                  /\ l.fetched # NoBundle /\ l.result.value = l.fetched
                  /\ heap[l.state].bundle = l.fetched

\* C16 witness: the entry held Bundle1 and a token no longer valid; the load
\* exchanged, fetched, and replaced Bundle1 by Bundle2.
C16_Witness ==
    \E id \in Live :
        /\ loads[id].pc = "settled" /\ IsFulfilled(loads[id])
        /\ loads[id].entryBefore.bundle = Bundle1
        /\ loads[id].entryBefore.token # NoToken
        /\ loads[id].requests = <<"exchange", "bundle">>
        /\ loads[id].fetched = Bundle2
        /\ heap[loads[id].state].bundle = Bundle2

FollowsStale(id) ==
    /\ id > 1 /\ loads[id].now # NoNumber
    /\ loads[id - 1].pc = "done" /\ loads[id - 1].stale = loads[id].state

\* A load that has not seen a 401 has the bundle of its entry as it found it,
\* unless it has stored the bundle it fetched; a bundle is cleared only by a
\* load that got a 401 from the bundle fetch.
BundleKept ==
    \A id \in Live :
        LET l == loads[id] IN
        (l.now # NoNumber /\ Unauthorized(l) = {}) =>
            heap[l.state].bundle = IF IsFulfilled(l) /\ l.fetched # NoBundle
                                   THEN l.fetched ELSE l.entryBefore.bundle

\* C18 as stated: BundleKept, and the load that follows a stale one always
\* finds a valid token and the old bundle, and returns the old bundle with no
\* request.
C18_StaleBundleServed ==
    /\ BundleKept
    /\ \A id \in Live :
          FollowsStale(id) =>
              /\ loads[id].requests = <<>>
              /\ loads[id].result = Fulfilled(loads[id].entryBefore.bundle)

\* C18, amended: BundleKept, and the load that follows a stale one returns the
\* old bundle with no request if the token that was exchanged is still valid
\* (its expiry is beyond now + 30 s) when that load evaluates it; the bundle it
\* finds is the one the stale load left.
C18_StaleBundleServedWhileFresh ==
    /\ BundleKept
    /\ \A id \in Live :
          (FollowsStale(id) /\ HoldsFreshToken(loads[id].entryBefore, loads[id].now)) =>
              /\ loads[id].requests = <<>>
              /\ loads[id].pc = "settled"
              /\ loads[id].result = Fulfilled(loads[id].entryBefore.bundle)
              /\ processEnv = ObjectAssign(loads[id].envBefore, loads[id].entryBefore.bundle)

\* C18 witness: the load that follows a stale one has returned the old bundle
\* without a request.
C18_Witness ==
    \E id \in Live :
        /\ FollowsStale(id)
        /\ loads[id].pc = "settled" /\ loads[id].requests = <<>>
        /\ loads[id].result = Fulfilled(loads[id].entryBefore.bundle)

\* C19: the token a load finds in its cache entry, and the token each of its
\* bundle requests carries, was issued by exchanging the credential this load
\* resolved; so a bundle it returns, from the cache or from a fetch, rests on
\* its own credential, and loads with different credentials share no token.
C19_OwnCredentialOnly ==
    \A id \in Live :
        LET l == loads[id] IN
        l.now # NoNumber =>
            /\ l.entryBefore.token # NoToken => l.entryBefore.token.iss = l.runtimeKey
            /\ l.req.op = "bundle" => l.req.token.iss = l.runtimeKey

\* C20: over every interleaving of loadEnv calls, answers and _resetState
\* calls, a computation that is in flight is the one the handle refers to; so
\* no two computations are in flight together, and the handle is never null
\* while a computation started after a reset is still in flight.
C20_HandleTracksLoad ==
    /\ \A id \in InFlight : pendingLoadPromise = id
    /\ Cardinality(InFlight) <= 1

====
